---- MODULE Spec2Model ----
(***************************************************************************)
(* ContentSnap backend (src/backend/app.py): the summarize pipeline.        *)
(*                                                                         *)
(* Strings.  A Python str is modelled by its run-length encoding: a        *)
(* sequence of runs [c |-> character, n |-> count], n >= 1, adjacent runs  *)
(* of different characters.  The encoding is lossless; every string        *)
(* operation below is the Python operation computed on that encoding, so   *)
(* that texts of tens of thousands of characters stay small values.        *)
(* Characters are one-character strings; "LF" stands for the newline.      *)
(***************************************************************************)
EXTENDS Integers, Sequences, FiniteSets, TLC

Max(a, b) == IF a >= b THEN a ELSE b
Min(a, b) == IF a <= b THEN a ELSE b


\* ------------------------------------------------------------------ str
\* The operators on strings avoid deep recursion (they halve the sequence or
\* work by index), so that a text of a few hundred runs can be evaluated.

\* str.isspace() of one character (the whitespace the model's texts use)
IsSpace(c) == c \in {" ", "LF"}

\* c * n
Run(c, n) == IF n <= 0 THEN <<>> ELSE <<[c |-> c, n |-> n]>>

\* s + t, for s and t in canonical encoding
Cat(s, t) ==
    IF s = <<>> THEN t
    ELSE IF t = <<>> THEN s
    ELSE IF s[Len(s)].c = t[1].c
         THEN SubSeq(s, 1, Len(s) - 1)
              \o <<[c |-> t[1].c, n |-> s[Len(s)].n + t[1].n]>>
              \o Tail(t)
         ELSE s \o t

RECURSIVE Norm(_)
\* the canonical encoding: no empty run, no two adjacent runs of one character
Norm(s) ==
    IF Len(s) = 0 THEN <<>>
    ELSE IF Len(s) = 1 THEN Run(s[1].c, s[1].n)
    ELSE Cat(Norm(SubSeq(s, 1, Len(s) \div 2)),
             Norm(SubSeq(s, (Len(s) \div 2) + 1, Len(s))))

\* a string literal, given character by character
Lit(chars) == Norm([i \in 1..Len(chars) |-> [c |-> chars[i], n |-> 1]])

RECURSIVE StrLen(_)
\* len(s)
StrLen(s) ==
    IF Len(s) = 0 THEN 0
    ELSE IF Len(s) = 1 THEN s[1].n
    ELSE StrLen(SubSeq(s, 1, Len(s) \div 2))
         + StrLen(SubSeq(s, (Len(s) \div 2) + 1, Len(s)))

\* the runs of s that are not whitespace, by index
Solid(s) == {i \in 1..Len(s) : ~IsSpace(s[i].c)}

SetMin(S) == CHOOSE x \in S : \A y \in S : x <= y
SetMax(S) == CHOOSE x \in S : \A y \in S : x >= y

\* s.strip()
Strip(s) == IF Solid(s) = {} THEN <<>> ELSE SubSeq(s, SetMin(Solid(s)), SetMax(Solid(s)))

\* s.lstrip()
LStrip(s) == IF Solid(s) = {} THEN <<>> ELSE SubSeq(s, SetMin(Solid(s)), Len(s))

\* the number of leading runs of s that lie wholly within its first k characters
WholeRuns(s, k) == Cardinality({i \in 1..Len(s) : StrLen(SubSeq(s, 1, i)) <= k})

\* s[:k], k >= 0
Take(s, k) ==
    LET j == WholeRuns(s, k)
        used == StrLen(SubSeq(s, 1, j))
    IN  IF j < Len(s) /\ k > used
        THEN SubSeq(s, 1, j) \o <<[c |-> s[j + 1].c, n |-> k - used]>>
        ELSE SubSeq(s, 1, j)

\* s[k:], k >= 0
Drop(s, k) ==
    LET j == WholeRuns(s, k)
        used == StrLen(SubSeq(s, 1, j))
    IN  IF j < Len(s) /\ k > used
        THEN <<[c |-> s[j + 1].c, n |-> s[j + 1].n - (k - used)]>> \o SubSeq(s, j + 2, Len(s))
        ELSE SubSeq(s, j + 1, Len(s))

\* s[a:b], 0 <= a <= b
Slice(s, a, b) == Take(Drop(s, a), b - a)

\* n copies of the empty string, as a list
Empties(n) == [i \in 1..n |-> <<>>]

RECURSIVE Split(_, _)
\* s.split(ch) for a one-character separator: a run of n separators ends a
\* piece and is followed by n - 1 empty pieces
Split(s, ch) ==
    LET hits == {i \in 1..Len(s) : s[i].c = ch}
    IN  IF hits = {} THEN <<s>>
        ELSE <<SubSeq(s, 1, SetMin(hits) - 1)>>
             \o Empties(s[SetMin(hits)].n - 1)
             \o Split(SubSeq(s, SetMin(hits) + 1, Len(s)), ch)

RECURSIVE SplitPara(_)
\* s.split('\n\n'): separators are taken left to right, without overlap, so
\* of a run of n newlines n \div 2 separate and n % 2 starts the next piece
SplitPara(s) ==
    LET hits == {i \in 1..Len(s) : s[i].c = "LF" /\ s[i].n >= 2}
    IN  IF hits = {} THEN <<s>>
        ELSE <<SubSeq(s, 1, SetMin(hits) - 1)>>
             \o Empties((s[SetMin(hits)].n \div 2) - 1)
             \o SplitPara(Run("LF", s[SetMin(hits)].n % 2)
                          \o SubSeq(s, SetMin(hits) + 1, Len(s)))

RECURSIVE Join(_, _)
\* sep.join(parts)
Join(sep, parts) ==
    IF Len(parts) = 0 THEN <<>>
    ELSE IF Len(parts) = 1 THEN parts[1]
    ELSE Cat(Cat(Join(sep, SubSeq(parts, 1, Len(parts) \div 2)), sep),
             Join(sep, SubSeq(parts, (Len(parts) \div 2) + 1, Len(parts))))

\* len(s.split()): the maximal stretches of non-whitespace
WordCount(s) ==
    Cardinality({i \in Solid(s) : i = 1 \/ IsSpace(s[i - 1].c)})

\* [x.strip() for x in seq]
StripAll(seq) == [i \in 1..Len(seq) |-> Strip(seq[i])]

\* the lists of a list, one after the other (list.extend)
RECURSIVE Flatten(_)
Flatten(seqs) ==
    IF Len(seqs) = 0 THEN <<>>
    ELSE IF Len(seqs) = 1 THEN seqs[1]
    ELSE Flatten(SubSeq(seqs, 1, Len(seqs) \div 2))
         \o Flatten(SubSeq(seqs, (Len(seqs) \div 2) + 1, Len(seqs)))

\* ------------------------------------------------------------ clean_text

Letters ==
    {"a", "b", "c", "d", "e", "f", "g", "h", "i", "j", "k", "l", "m", "n", "o",
     "p", "q", "r", "s", "t", "u", "v", "w", "x", "y", "z"}

\* the class [\w\s.,!?;:\-()"] of line 106
Kept(c) ==
    \/ c \in Letters
    \/ IsSpace(c)
    \/ c \in {".", ",", "!", "?", ";", ":", "-", "(", ")", "\""}

\* re.sub(r'\s+', ' ', text): every whitespace run becomes one space, and of
\* adjacent whitespace runs only the first is kept
CollapseSpace(s) ==
    LET t == [i \in 1..Len(s) |-> [i |-> i, r |-> s[i]]]
        first == SelectSeq(t, LAMBDA x :
                     ~(IsSpace(x.r.c) /\ x.i > 1 /\ IsSpace(s[x.i - 1].c)))
    IN  [i \in 1..Len(first) |->
            IF IsSpace(first[i].r.c) THEN [c |-> " ", n |-> 1] ELSE first[i].r]

\* re.sub(r'[^\w\s.,!?;:\-()"]', '', text)
RemoveSpecial(s) == Norm(SelectSeq(s, LAMBDA r : Kept(r.c)))

clean_text(text) == Strip(RemoveSpecial(CollapseSpace(text)))

\* ---------------------------------------------- calculate_summary_params

\* the length tier of lines 187, 196, 205
Tier(text_length) ==
    IF text_length < 2000 THEN 1 ELSE IF text_length < 20000 THEN 2 ELSE 3

\* detail_ratios.get(detail_level, 0.3), as the fraction <<numerator, denominator>>
Ratio(tier, detail_level) ==
    CASE tier = 1 /\ detail_level = "low" -> <<4, 10>>
      [] tier = 1 /\ detail_level = "medium" -> <<6, 10>>
      [] tier = 1 /\ detail_level = "high" -> <<8, 10>>
      [] tier = 2 /\ detail_level = "low" -> <<3, 10>>
      [] tier = 2 /\ detail_level = "medium" -> <<5, 10>>
      [] tier = 2 /\ detail_level = "high" -> <<7, 10>>
      [] tier = 3 /\ detail_level = "low" -> <<15, 100>>
      [] tier = 3 /\ detail_level = "medium" -> <<3, 10>>
      [] tier = 3 /\ detail_level = "high" -> <<5, 10>>
      [] OTHER -> <<3, 10>>

\* min_lengths.get(detail_level, 2000)
MinBound(tier, detail_level) ==
    CASE tier = 1 /\ detail_level = "low" -> 100
      [] tier = 1 /\ detail_level = "medium" -> 200
      [] tier = 1 /\ detail_level = "high" -> 300
      [] tier = 2 /\ detail_level = "low" -> 1000
      [] tier = 2 /\ detail_level = "medium" -> 2500
      [] tier = 2 /\ detail_level = "high" -> 4000
      [] tier = 3 /\ detail_level = "low" -> 2000
      [] tier = 3 /\ detail_level = "medium" -> 5000
      [] tier = 3 /\ detail_level = "high" -> 8000
      [] OTHER -> 2000

\* max_lengths.get(detail_level, 10000)
MaxBound(tier, detail_level) ==
    CASE tier = 1 /\ detail_level = "low" -> 500
      [] tier = 1 /\ detail_level = "medium" -> 1000
      [] tier = 1 /\ detail_level = "high" -> 1500
      [] tier = 2 /\ detail_level = "low" -> 3000
      [] tier = 2 /\ detail_level = "medium" -> 7000
      [] tier = 2 /\ detail_level = "high" -> 12000
      [] tier = 3 /\ detail_level = "low" -> 8000
      [] tier = 3 /\ detail_level = "medium" -> 15000
      [] tier = 3 /\ detail_level = "high" -> 25000
      [] OTHER -> 10000

\* int(text_length * ratio) in IEEE double arithmetic.  For every ratio of the
\* table but 0.7 the double product truncates to the exact quotient; 0.7 is
\* stored just below 7/10, and for a multiple of ten whose exact product q lies
\* in the upper eighth of a binade (7*2^k/8 < q < 2^k) the product rounds to
\* just below q and truncates to q - 1 (int(90 * 0.7) = 62).
ScaleByRatio(text_length, ratio) ==
    LET q == (text_length * ratio[1]) \div ratio[2]
    IN  IF /\ ratio = <<7, 10>>
           /\ text_length % 10 = 0
           /\ \E k \in 0..24 : 7 * 2^k < 8 * q /\ q < 2^k
        THEN q - 1
        ELSE q

\* lines 225-240: the floors of the very long texts
LongTextFloor(text_length, detail_level, target_length) ==
    IF text_length > 100000
    THEN IF detail_level = "high" THEN Max(target_length, 20000)
         ELSE IF detail_level = "medium" THEN Max(target_length, 12000)
         ELSE Max(target_length, 8000)
    ELSE IF text_length > 50000
    THEN IF detail_level = "high" THEN Max(target_length, 15000)
         ELSE IF detail_level = "medium" THEN Max(target_length, 8000)
         ELSE Max(target_length, 5000)
    ELSE target_length

\* max_tokens as it is before lines 247-248
ParamsSafetyCheckOff(min_tokens, max_tokens) == max_tokens

\* lines 247-248: "Additional safety check"
ParamsSafetyCheck(min_tokens, max_tokens) ==
    IF min_tokens >= max_tokens THEN min_tokens + 100 ELSE max_tokens

\* returns <<min_tokens, max_tokens, target_length>>; format_type is unused
calculate_summary_params(text_length, detail_level, format_type) ==
    LET tier == Tier(text_length)
        ratio == Ratio(tier, detail_level)
        target0 == ScaleByRatio(text_length, ratio)
        min_bound == MinBound(tier, detail_level)
        max_bound == MaxBound(tier, detail_level)
        target1 == Max(min_bound, Min(target0, max_bound))
        target_length == LongTextFloor(text_length, detail_level, target1)
        max_tokens == Min(1024, target_length \div 3)
        min_tokens == Max(50, max_tokens \div 3)
    IN  <<min_tokens, ParamsSafetyCheck(min_tokens, max_tokens), target_length>>

\* ------------------------------------------------ intelligent_chunk_text

\* [x for x in seq if x]  (after the strip: the non-blank ones)
NonEmpty(seq) == SelectSeq(seq, LAMBDA x : x # <<>>)

\* line 120: [p.strip() for p in text.split('\n\n') if p.strip()]
Paragraphs(text) == NonEmpty(StripAll(SplitPara(text)))

\* line 124: [s.strip() for s in text.split('.') if s.strip() and len(s.strip()) > 20]
Sentences(text) ==
    SelectSeq(StripAll(Split(text, ".")), LAMBDA x : x # <<>> /\ StrLen(x) > 20)

\* line 129: [text[i:i+size] for i in range(0, len(text), size)]
Windows(text, size) ==
    LET n == (StrLen(text) + size - 1) \div size
    IN  [i \in 1..n |-> Slice(text, (i - 1) * size, i * size)]

\* lines 120-129: the units that are packed into chunks
SplitUnits(text, target_chunk_size) ==
    LET paragraphs == Paragraphs(text)
        sentences == Sentences(text)
    IN  IF Len(paragraphs) < 3
        THEN IF sentences # <<>>
             THEN [i \in 1..Len(sentences) |-> Cat(sentences[i], Run(".", 1))]
             ELSE Windows(text, target_chunk_size)
        ELSE paragraphs

\* lines 148-151: the safety valve, on the loop's state [chunks, current_chunk]
\* (len(current_chunk) > target_chunk_size * 1.5)
SafetyValve(chunks, current_chunk, target_chunk_size) ==
    IF 2 * StrLen(current_chunk) > 3 * target_chunk_size
    THEN [chunks |-> Append(chunks, Strip(current_chunk)), current_chunk |-> <<>>]
    ELSE [chunks |-> chunks, current_chunk |-> current_chunk]

\* line 138
PotentialChunk(current_chunk, paragraph) ==
    IF current_chunk # <<>> THEN Cat(Cat(current_chunk, Run(" ", 1)), paragraph)
    ELSE paragraph

\* lines 137-151: one iteration of the packing loop on the loop's state st
PackStep(st, paragraph, target_chunk_size) ==
    IF /\ st.current_chunk # <<>>
       /\ StrLen(PotentialChunk(st.current_chunk, paragraph)) > target_chunk_size
    THEN SafetyValve(Append(st.chunks, Strip(st.current_chunk)), paragraph,
                     target_chunk_size)
    ELSE SafetyValve(st.chunks, PotentialChunk(st.current_chunk, paragraph),
                     target_chunk_size)

RECURSIVE PackLoop(_, _, _)
\* line 136: for i, paragraph in enumerate(paragraphs): the loop's state after
\* the first i paragraphs
PackLoop(paragraphs, i, target_chunk_size) ==
    IF i = 0 THEN [chunks |-> <<>>, current_chunk |-> <<>>]
    ELSE PackStep(PackLoop(paragraphs, i - 1, target_chunk_size), paragraphs[i],
                  target_chunk_size)

\* lines 133-155
Pack(paragraphs, target_chunk_size) ==
    LET st == PackLoop(paragraphs, Len(paragraphs), target_chunk_size)
    IN  IF Strip(st.current_chunk) # <<>>
        THEN Append(st.chunks, Strip(st.current_chunk))
        ELSE st.chunks

\* lines 163-177: one chunk of the force split, as the list it contributes
ForceSplitChunk(chunk, target_chunk_size) ==
    IF StrLen(chunk) > target_chunk_size * 2
    THEN LET mid_point == StrLen(chunk) \div 2
             sentences_in_chunk == Split(chunk, ".")
             n == Len(sentences_in_chunk)
             mid_sentence == n \div 2
         IN  IF n > 2
             THEN << Strip(Cat(Join(Run(".", 1), SubSeq(sentences_in_chunk, 1, mid_sentence)),
                               Run(".", 1))),
                     Strip(Join(Run(".", 1), SubSeq(sentences_in_chunk, mid_sentence + 1, n))) >>
             ELSE << Strip(Take(chunk, mid_point)), Strip(Drop(chunk, mid_point)) >>
    ELSE <<chunk>>

\* lines 158-178
ForceSplit(chunks, target_chunks, total_length, target_chunk_size) ==
    IF Len(chunks) < Max(2, target_chunks \div 3) /\ total_length > 20000
    THEN SelectSeq(Flatten([i \in 1..Len(chunks) |->
                       ForceSplitChunk(chunks[i], target_chunk_size)]),
                   LAMBDA c : Strip(c) # <<>>)
    ELSE chunks

\* line 115
TargetChunkSize(total_length, target_chunks) ==
    Max(total_length \div target_chunks, 1000)

\* returns [raised, chunks]; raised: line 180 divides by len(chunks), a
\* ZeroDivisionError when no chunk was made
intelligent_chunk_text(text, target_chunks) ==
    LET total_length == StrLen(text)
        target_chunk_size == TargetChunkSize(total_length, target_chunks)
        paragraphs == SplitUnits(text, target_chunk_size)
        chunks == ForceSplit(Pack(paragraphs, target_chunk_size), target_chunks,
                             total_length, target_chunk_size)
    IN  [raised |-> chunks = <<>>, chunks |-> chunks]

\* ------------------------------------------- summarize_text: formatting

\* the alternatives of the regular expression of line 450
Conjunctions ==
    { Lit(<<"a", "n", "d">>), Lit(<<"b", "u", "t">>),
      Lit(<<"h", "o", "w", "e", "v", "e", "r">>), Lit(<<"w", "h", "i", "l", "e">>),
      Lit(<<"w", "h", "e", "r", "e", "a", "s">>),
      Lit(<<"a", "l", "t", "h", "o", "u", "g", "h">>),
      Lit(<<"f", "u", "r", "t", "h", "e", "r", "m", "o", "r", "e">>),
      Lit(<<"m", "o", "r", "e", "o", "v", "e", "r">>),
      Lit(<<"a", "d", "d", "i", "t", "i", "o", "n", "a", "l", "l", "y">>) }

\* s starts with the word w followed by whitespace: (?:and|but|...)\s+
StartsWithWord(s, w) ==
    /\ Len(s) > Len(w)
    /\ SubSeq(s, 1, Len(w)) = w
    /\ IsSpace(s[Len(w) + 1].c)

\* what is left of s after `\s*(?:and|but|...)\s+`, s being the text after a comma
AfterConjunction(s) ==
    LET t == LStrip(s)
        w == CHOOSE w \in Conjunctions : StartsWithWord(t, w)
    IN  LStrip(SubSeq(t, Len(w) + 1, Len(t)))

MatchesConjunction(s) == \E w \in Conjunctions : StartsWithWord(LStrip(s), w)

\* the run s[i] ends with a separator of the regular expression
IsSeparator(s, i) ==
    \/ s[i].c = ";"
    \/ s[i].c = "," /\ MatchesConjunction(SubSeq(s, i + 1, Len(s)))

RECURSIVE ReSplit(_)
\* re.split(r'[;]\s*|[,]\s*(?:and|but|however|while|whereas|although|
\*           furthermore|moreover|additionally)\s+', s)
\* each ';' of a run separates, the last one taking the whitespace after it;
\* of a run of ',' only the last can be followed by a conjunction
ReSplit(s) ==
    LET hits == {i \in 1..Len(s) : IsSeparator(s, i)}
        i == SetMin(hits)
        rest == SubSeq(s, i + 1, Len(s))
    IN  IF hits = {} THEN <<s>>
        ELSE IF s[i].c = ";"
             THEN <<SubSeq(s, 1, i - 1)>> \o Empties(s[i].n - 1) \o ReSplit(LStrip(rest))
             ELSE <<SubSeq(s, 1, i - 1) \o Run(",", s[i].n - 1)>>
                  \o ReSplit(AfterConjunction(rest))

\* [s.strip() for s in parts if s.strip() and len(s.strip()) > k]
LongerThan(parts, k) ==
    SelectSeq(StripAll(parts), LAMBDA x : x # <<>> /\ StrLen(x) > k)

\* lines 444-451
BulletSentences(cleaned_summary) ==
    LET sentences == LongerThan(Split(cleaned_summary, "."), 15)
    IN  IF Len(sentences) < 3 THEN LongerThan(ReSplit(cleaned_summary), 20)
        ELSE sentences

\* the literal prefix of line 463, four characters as the file has them
BulletPrefix == Lit(<<"U+00E2", "U+20AC", "U+00A2", " ">>)

\* lines 458-463: one bullet (sentence is stripped and not empty)
Bullet(sentence) ==
    LET s == Strip(sentence)
        last == s[Len(s)].c
    IN  Cat(BulletPrefix, IF last \in {".", "!", "?"} THEN s ELSE Cat(s, Run(".", 1)))

\* lines 438-465
FormatBulletPoints(summary) ==
    LET cleaned_summary == Strip(summary)
        sentences == BulletSentences(cleaned_summary)
        max_bullets == Min(15, Max(5, Len(sentences)))
        shown == SubSeq(sentences, 1, Min(max_bullets, Len(sentences)))
        bullet_points == [i \in 1..Len(shown) |-> Bullet(shown[i])]
    IN  Join(Run("LF", 1), bullet_points)

\* line 468: f"TL;DR: {summary.strip()}"
TldrPrefix == Lit(<<"T", "L", ";", "D", "R", ":", " ">>)

\* lines 438-470
FormatSummary(summary, format) ==
    IF format = "bullet_points" THEN FormatBulletPoints(summary)
    ELSE IF format = "tldr" THEN Cat(TldrPrefix, Strip(summary))
    ELSE Strip(summary)

\* ------------------------------------------------------------ the inputs

\* Optional[int]: <<>> is None, <<v>> is the value v
NoHint == <<>>

\* `if request.max_length:` - None and 0 are both false
Truthy(opt) == opt # <<>> /\ opt[1] # 0

\* a sentence of n letters and its full stop
Sent(n) == Run("a", n) \o Run(".", 1)

\* k words of two letters, separated by single spaces
Words(k) ==
    Norm(Flatten([i \in 1..k |->
        IF i = 1 THEN Lit(<<"a", "b">>) ELSE Lit(<<" ", "a", "b">>)]))

\* bounds of the model: how many sentences the long texts have, how many
\* words the wordy text has, and the lengths of the model's outputs
MaxSentences == 3
MaxWords == 120
ShortOutputLen == 5
LongOutputLen == 4100

\* s repeated k times, with a space between
RECURSIVE Repeat(_, _)
Repeat(s, k) == IF k <= 1 THEN s ELSE Cat(Cat(Repeat(s, k - 1), Run(" ", 1)), s)

\* the request texts: too short, blank after cleaning, direct path (one plain,
\* one to be cleaned, one wordy), and the hierarchical path (one sentence; k
\* sentences each above the valve; three long sentences and a fragment under
\* 100 characters; five sentences above 30000 characters altogether)
ShortTexts ==
    { <<>>,
      Run("a", 40),
      Run(" ", 30) \o Run("a", 30) \o Run("LF", 30),
      Run("#", 60),
      Sent(30) \o Run("#", 30) }

DirectTexts ==
    { Sent(60),
      Run("LF", 2) \o Sent(30) \o Run(" ", 2) \o Run("LF", 2) \o Run("#", 3) \o Sent(30),
      Words(MaxWords) }

HierarchicalTexts ==
    { Run("a", 9000),
      Cat(Cat(Cat(Cat(Sent(4000), Run(" ", 1)), Sent(50)), Run(" ", 1)),
          Repeat(Sent(4000), 2)),
      Repeat(Sent(6100), 5) }
    \cup { Repeat(Sent(2700), k) : k \in 3..MaxSentences }

Texts == ShortTexts \cup DirectTexts \cup HierarchicalTexts

Formats == {"bullet_points", "tldr", "simplified", "detailed"}

\* the three levels and a value the tables do not know
DetailLevels == {"low", "medium", "high", "extreme"}

\* user hints: absent, zero, negative, small, the spec's scenario (90, 600), large
Hints == {NoHint, <<0>>, <<-7>>, <<30>>, <<90>>, <<600>>, <<4000>>}

\* the texts the hinted requests use: one of the direct and one of the
\* hierarchical path
HintedTexts == {Sent(60), Run("a", 9000)}

Requests ==
    [text : Texts, format : Formats, max_length : {NoHint}, min_length : {NoHint},
     detail_level : DetailLevels]
    \cup
    [text : HintedTexts, format : {"bullet_points", "simplified"}, max_length : Hints,
     min_length : Hints, detail_level : {"medium", "high"}]

\* what one call of the summarization model may do: raise, or return a
\* summary_text (blank, short, or a long sentence)
ModelOutputs ==
    { Run(" ", 2), Sent(ShortOutputLen), Cat(Sent(LongOutputLen), Run(" ", 1)) }

ModelOutcomes ==
    {[raised |-> TRUE, out |-> <<>>]}
    \cup {[raised |-> FALSE, out |-> o] : o \in ModelOutputs}

\* ------------------------------------------------------------- the state

VARIABLES
    phase,            \* "boot", "serving", "failed": the lifespan of the app
    summarizers,      \* the keys of the global summarizers dict
    pc,               \* where the one request in flight is
    request,          \* the SummarizeRequest
    job,              \* the arguments handed to run_summarization
    chunks,           \* run_summarization: chunks
    i,                \* run_summarization: the map loop's index (from 1)
    chunk_summaries,  \* run_summarization: chunk_summaries
    combined_summary, \* run_summarization: combined_summary
    summary,          \* what run_summarization returned: [is_none, text]
    response,         \* the HTTP response: status 0 is none yet
    calls,            \* history: every invocation of the model, in order
    p_in, p_out,      \* calculate_summary_params on its own: input and result
    c_in, c_out,      \* intelligent_chunk_text on its own: input and result
    arrived,          \* the pool: how many requests have reached the handler
    req_state,        \* the pool: where each request is
    left,             \* the pool: the model calls a request's run still makes
    work_queue,       \* ThreadPoolExecutor: the submitted work items, in order
    threads,          \* ThreadPoolExecutor: the worker threads started
    idle_semaphore,   \* ThreadPoolExecutor: released by a worker after an item
    started           \* history: the requests in the order workers took them

mainVars ==
    <<phase, summarizers, pc, request, job, chunks, i, chunk_summaries,
      combined_summary, summary, response, calls>>
poolVars == <<arrived, req_state, left, work_queue, threads, idle_semaphore, started>>
calcVars == <<p_in, p_out, c_in, c_out>>
pureVars == <<calcVars, poolVars>>
vars == <<mainVars, pureVars>>

NoRequest ==
    [text |-> <<>>, format |-> "", max_length |-> NoHint, min_length |-> NoHint,
     detail_level |-> ""]
NoJob ==
    [text |-> <<>>, model_key |-> "", max_length |-> 0, min_length |-> 0,
     detail_level |-> "", text_length |-> 0, target_length |-> 0]
NoSummary == [is_none |-> TRUE, text |-> <<>>]
NoResponse ==
    [status |-> 0, summary |-> <<>>, format |-> "", original_length |-> 0,
     summary_length |-> 0, chunks_processed |-> 0, detail_level |-> ""]
NoPure == [used |-> FALSE]

MainInit ==
    /\ phase = "boot"
    /\ summarizers = {}
    /\ pc = "idle"
    /\ request = NoRequest
    /\ job = NoJob
    /\ chunks = <<>>
    /\ i = 0
    /\ chunk_summaries = <<>>
    /\ combined_summary = <<>>
    /\ summary = NoSummary
    /\ response = NoResponse
    /\ calls = <<>>

\* bounds of the pool's model: the requests that arrive, and the model calls
\* one run of run_summarization makes at most
MaxRequests == 5
MaxCalls == 1

RequestIds == 1..MaxRequests

\* no request has arrived and the executor of line 24 has no thread yet
PoolIdle ==
    /\ arrived = 0
    /\ req_state = [r \in RequestIds |-> "none"]
    /\ left = [r \in RequestIds |-> 0]
    /\ work_queue = <<>>
    /\ threads = 0
    /\ idle_semaphore = 0
    /\ started = <<>>

PureIdle ==
    /\ p_in = NoPure /\ p_out = NoPure /\ c_in = NoPure /\ c_out = NoPure
    /\ PoolIdle

Init == MainInit /\ PureIdle

\* ----------------------------------------------------------- load_models

\* lines 60-99: each pipeline() either loads or raises; "long_text" is bart
\* again; with nothing loaded load_models raises and the app does not start
load_models ==
    /\ phase = "boot"
    /\ \E bart \in BOOLEAN, t5 \in BOOLEAN :
         LET loaded == (IF bart THEN {"bart", "long_text"} ELSE {})
                       \cup (IF t5 THEN {"t5"} ELSE {})
         IN  /\ summarizers' = loaded
             /\ phase' = IF loaded = {} THEN "failed" ELSE "serving"
    /\ UNCHANGED <<pc, request, job, chunks, i, chunk_summaries, combined_summary,
                   summary, response, calls, pureVars>>

\* -------------------------------------------------------- summarize_text

\* line 399
HintMaxTokens(max_length) == Min(max_length \div 3, 1024)

\* min_length // 6 without the floor of line 401
HintMinTokensNoFloor(min_length) == min_length \div 6

\* line 401
HintMinTokens(min_length) == Max(min_length \div 6, 20)

\* max_tokens as it is before lines 404-405
FinalSafetyCheckOff(min_tokens, max_tokens) == max_tokens

\* lines 404-405: "Final safety check for token limits"
FinalSafetyCheck(min_tokens, max_tokens) ==
    IF min_tokens >= max_tokens THEN min_tokens + 50 ELSE max_tokens

\* lines 393-405: <<min_tokens, max_tokens, target_length>> of a request
TokenLimits(req, text_length) ==
    LET p == calculate_summary_params(text_length, req.detail_level, req.format)
        max_tokens == IF Truthy(req.max_length) THEN HintMaxTokens(req.max_length[1])
                      ELSE p[2]
        min_tokens == IF Truthy(req.min_length) THEN HintMinTokens(req.min_length[1])
                      ELSE p[1]
    IN  <<min_tokens, FinalSafetyCheck(min_tokens, max_tokens), p[3]>>

\* lines 408-415
ModelKey(text_length, format) ==
    IF text_length > 30000 THEN "long_text"
    ELSE IF format = "tldr" THEN "bart"
    ELSE IF format = "simplified" THEN "t5"
    ELSE "bart"

\* line 382
TooShort(text) == text = <<>> \/ StrLen(Strip(text)) < 50

\* the HTTPException of lines 383 and 432
ErrorResponse(status) == [NoResponse EXCEPT !.status = status]

\* lines 379-429: the handler up to the await: reject, or clean the text,
\* compute the limits, choose the model and submit run_summarization
summarize_text ==
    /\ phase = "serving"
    /\ pc = "idle"
    /\ \E req \in Requests :
         /\ request' = req
         /\ IF TooShort(req.text)
            THEN /\ response' = ErrorResponse(400)
                 /\ pc' = "done"
                 /\ job' = job
            ELSE LET cleaned_text == clean_text(req.text)
                     text_length == StrLen(cleaned_text)
                     lim == TokenLimits(req, text_length)
                 IN  /\ job' = [text |-> cleaned_text,
                                model_key |-> ModelKey(text_length, req.format),
                                max_length |-> lim[2],
                                min_length |-> lim[1],
                                detail_level |-> req.detail_level,
                                text_length |-> text_length,
                                target_length |-> lim[3]]
                     /\ pc' = "queued"
                     /\ response' = response
    /\ UNCHANGED <<phase, summarizers, chunks, i, chunk_summaries, combined_summary,
                   summary, calls, pureVars>>

\* ----------------------------------------------------- run_summarization

\* lines 261-262
FixMinLength(min_length, max_length) ==
    IF min_length >= max_length THEN Max(1, max_length - 50) ELSE min_length

\* line 269
ChunkCount(text_length) == Min(30, Max(15, text_length \div 2500))

\* lines 270-278: the chunks of the hierarchical path, as [raised, chunks]
PlanChunks(text) ==
    LET text_length == StrLen(text)
        chunk_count == ChunkCount(text_length)
        planned == intelligent_chunk_text(text, chunk_count)
        chunk_size == text_length \div Max(10, chunk_count \div 2)
    IN  IF planned.raised THEN planned
        ELSE IF Len(planned.chunks) < 3 /\ text_length > 20000
             THEN [raised |-> FALSE, chunks |-> Windows(text, chunk_size)]
             ELSE planned

\* lines 288-290: <<chunk_max_length, chunk_min_length>>
ChunkLimits(chunk) ==
    LET chunk_target == Max(150, Min(400, StrLen(chunk) \div 3))
        chunk_max_length == Min(200, chunk_target \div 4)
        chunk_min_length == Max(20, chunk_max_length \div 3)
    IN  <<chunk_max_length, chunk_min_length>>

\* lines 320-322: <<final_max_length, final_min_length>>
FinalLimits(combined) ==
    LET final_target == Max(5000, StrLen(combined) \div 2)
        final_max_length == Min(400, final_target \div 4)
        final_min_length == Max(100, final_max_length \div 2)
    IN  <<final_max_length, final_min_length>>

\* lines 349-350: <<max_length, min_length>> of the fallback call
FallbackLimits(max_length, min_length) == <<Min(max_length, 200), Min(min_length, 50)>>

\* lines 358-360: <<safe_max_length, safe_min_length>>
DirectLimits(text, max_length, min_length) ==
    LET input_length == WordCount(text)
        safe_max_length == Min(max_length, Max(50, input_length \div 2))
        safe_min_length == Max(10, Min(safe_max_length - 20, min_length))
    IN  <<safe_max_length, safe_min_length>>

\* one invocation summarizer(text, max_length=.., min_length=.., ...) and
\* what it did, as the history keeps it
Call(kind, index, text, limits, outcome) ==
    [kind |-> kind, index |-> index, text |-> text, max_length |-> limits[1],
     min_length |-> limits[2], raised |-> outcome.raised, out |-> outcome.out]

Returned(text) == [is_none |-> FALSE, text |-> text]

\* lines 254-284 and 356-360, on the worker: look the model up, repair
\* min_length, and take the hierarchical or the direct path; a KeyError or a
\* failure of the chunking is caught at line 374 and None is returned
run_summarization ==
    /\ pc = "queued"
    /\ IF job.model_key \notin summarizers
       THEN /\ summary' = NoSummary
            /\ pc' = "returned"
            /\ UNCHANGED <<job, chunks, i>>
       ELSE /\ job' = [job EXCEPT !.min_length = FixMinLength(job.min_length, job.max_length)]
            /\ IF StrLen(job.text) > 8000
               THEN LET planned == PlanChunks(job.text)
                    IN  IF planned.raised
                        THEN /\ summary' = NoSummary
                             /\ pc' = "returned"
                             /\ UNCHANGED <<chunks, i>>
                        ELSE /\ chunks' = planned.chunks
                             /\ i' = 1
                             /\ pc' = "map"
                             /\ summary' = summary
               ELSE /\ pc' = "direct"
                    /\ UNCHANGED <<chunks, i, summary>>
    /\ UNCHANGED <<phase, summarizers, request, chunk_summaries, combined_summary,
                   response, calls, pureVars>>

\* lines 302-304: the stripped summary is kept if it is not empty
KeepSummary(summaries, out) ==
    IF Strip(out) # <<>> THEN Append(summaries, Strip(out)) ELSE summaries

\* a loop that a failed call ends (no `continue`)
NextIndexAbort(index, n, raised) == IF raised THEN n + 1 ELSE index + 1

\* lines 284 and 307-309: the loop goes on to the next chunk, also after a
\* failed call (`continue`); n is len(chunks)
NextIndex(index, n, raised) == index + 1

\* line 285: only the chunks above 100 characters are summarized
Substantial(chunk) == StrLen(chunk) > 100

\* lines 284-309: one iteration of the map loop: a chunk of at most 100
\* characters is passed over; otherwise the model is called, and a failure of
\* the call is caught and the loop goes on (line 309)
MapChunk ==
    /\ pc = "map"
    /\ i <= Len(chunks)
    /\ IF Substantial(chunks[i])
       THEN \E outcome \in ModelOutcomes :
              /\ calls' = Append(calls, Call("map", i, chunks[i], ChunkLimits(chunks[i]),
                                             outcome))
              /\ chunk_summaries' = IF outcome.raised THEN chunk_summaries
                                    ELSE KeepSummary(chunk_summaries, outcome.out)
              /\ i' = NextIndex(i, Len(chunks), outcome.raised)
       ELSE /\ UNCHANGED <<calls, chunk_summaries>>
            /\ i' = NextIndex(i, Len(chunks), FALSE)
    /\ UNCHANGED <<phase, summarizers, pc, request, job, chunks, combined_summary,
                   summary, response, pureVars>>

\* the length test of line 317 without the test of the detail level
NeedsReduceAnyDetail(combined, detail_level) == StrLen(combined) > 8000

\* line 317
NeedsReduce(combined, detail_level) == StrLen(combined) > 8000 /\ detail_level # "high"

\* lines 312-317 and 341-346: after the loop: combine, and go on to the reduce
\* pass, return the combined summary, or go on to the fallback
Combine ==
    /\ pc = "map"
    /\ i > Len(chunks)
    /\ IF chunk_summaries # <<>>
       THEN LET combined == Join(Run(" ", 1), chunk_summaries)
            IN  /\ combined_summary' = combined
                /\ IF NeedsReduce(combined, job.detail_level)
                   THEN pc' = "reduce" /\ summary' = summary
                   ELSE pc' = "returned" /\ summary' = Returned(combined)
       ELSE /\ pc' = "fallback"
            /\ UNCHANGED <<combined_summary, summary>>
    /\ UNCHANGED <<phase, summarizers, request, job, chunks, i, chunk_summaries,
                   response, calls, pureVars>>

\* a failed reduce call that would leave nothing to return
ReduceFailedNone(combined) == NoSummary

\* lines 337-340: the reduce call failed: the combined summaries are returned
ReduceFailed(combined) == Returned(combined)

\* lines 318-340: the reduce pass; if its call fails the combined summary is
\* returned
Reduce ==
    /\ pc = "reduce"
    /\ \E outcome \in ModelOutcomes :
         /\ calls' = Append(calls, Call("reduce", 0, combined_summary,
                                        FinalLimits(combined_summary), outcome))
         /\ summary' = IF outcome.raised THEN ReduceFailed(combined_summary)
                       ELSE Returned(Strip(outcome.out))
    /\ pc' = "returned"
    /\ UNCHANGED <<phase, summarizers, request, job, chunks, i, chunk_summaries,
                   combined_summary, response, pureVars>>

\* the text without the truncation of line 346
FallbackTextWhole(text) == text

\* line 346: truncated_text = text[:3000]
FallbackText(text) == Take(text, 3000)

\* lines 345-355: no chunk summary: summarize the first 3000 characters; a
\* failure of this call is caught at line 374
Fallback ==
    /\ pc = "fallback"
    /\ \E outcome \in ModelOutcomes :
         /\ calls' = Append(calls, Call("fallback", 0, FallbackText(job.text),
                                        FallbackLimits(job.max_length, job.min_length),
                                        outcome))
         /\ summary' = IF outcome.raised THEN NoSummary ELSE Returned(Strip(outcome.out))
    /\ pc' = "returned"
    /\ UNCHANGED <<phase, summarizers, request, job, chunks, i, chunk_summaries,
                   combined_summary, response, pureVars>>

\* lines 356-372: the direct path
Direct ==
    /\ pc = "direct"
    /\ \E outcome \in ModelOutcomes :
         /\ calls' = Append(calls, Call("direct", 0, job.text,
                                        DirectLimits(job.text, job.max_length,
                                                     job.min_length),
                                        outcome))
         /\ summary' = IF outcome.raised THEN NoSummary ELSE Returned(Strip(outcome.out))
    /\ pc' = "returned"
    /\ UNCHANGED <<phase, summarizers, request, job, chunks, i, chunk_summaries,
                   combined_summary, response, pureVars>>

\* line 431: `if not summary`
NotSummary(result) == result.is_none \/ result.text = <<>>

\* lines 431-482: the handler after the await: no summary is a 500; otherwise
\* the summary is formatted and returned
Respond ==
    /\ pc = "returned"
    /\ IF NotSummary(summary)
       THEN response' = ErrorResponse(500)
       ELSE LET formatted_summary == FormatSummary(summary.text, request.format)
            IN  response' = [status |-> 200,
                             summary |-> formatted_summary,
                             format |-> request.format,
                             original_length |-> job.text_length,
                             summary_length |-> StrLen(formatted_summary),
                             chunks_processed |-> Max(1, job.text_length \div 3000),
                             detail_level |-> request.detail_level]
    /\ pc' = "done"
    /\ UNCHANGED <<phase, summarizers, request, job, chunks, i, chunk_summaries,
                   combined_summary, summary, calls, pureVars>>

Next ==
    \/ load_models
    \/ summarize_text
    \/ run_summarization
    \/ MapChunk
    \/ Combine
    \/ Reduce
    \/ Fallback
    \/ Direct
    \/ Respond

Spec == Init /\ [][Next]_vars

\* ------------------------------ calculate_summary_params, on its own
\* The function is applied to lengths the request texts above do not reach.

\* bounds: the neighbours taken around each boundary length, and the number of
\* steps of the grid of lengths
ParamSpread == 2
MaxParamSteps == 70

\* the boundary lengths of the tiers and of the floors
BoundaryLengths == {0, 2000, 20000, 50000, 100000}

ParamLengths ==
    {n \in {b + d : b \in BoundaryLengths, d \in (0 - ParamSpread)..ParamSpread} : n >= 0}
    \cup {k * 1730 : k \in 0..MaxParamSteps}

ParamsInit ==
    /\ MainInit
    /\ p_in \in [used : {TRUE}, text_length : ParamLengths, detail_level : DetailLevels]
    /\ p_out = NoPure
    /\ c_in = NoPure
    /\ c_out = NoPure
    /\ PoolIdle

Calculate ==
    /\ p_in.used
    /\ ~p_out.used
    /\ LET p == calculate_summary_params(p_in.text_length, p_in.detail_level,
                                         "bullet_points")
       IN  p_out' = [used |-> TRUE, min_tokens |-> p[1], max_tokens |-> p[2],
                     target_length |-> p[3]]
    /\ UNCHANGED <<mainVars, p_in, c_in, c_out, poolVars>>

SpecParams == ParamsInit /\ [][Calculate]_vars

\* -------------------------------- intelligent_chunk_text, on its own

\* bound: how many paragraphs the paragraph texts have
MaxParagraphs == 4

\* k paragraphs of n letters, separated by blank lines
RECURSIVE Paras(_, _)
Paras(n, k) ==
    IF k <= 1 THEN Run("b", n)
    ELSE Paras(n, k - 1) \o Run("LF", 2) \o Run("b", n)

\* the texts: paragraphs; sentences; a short sentence before long ones;
\* texts with no sentence above 20 characters (fixed-size windows)
ChunkTexts ==
    { Paras(n, k) : n \in {400, 1600, 8000}, k \in 1..MaxParagraphs }
    \cup { Repeat(Sent(n), k) : n \in {10, 30, 700, 2700, 7000}, k \in 1..MaxSentences }
    \cup { Cat(Cat(Sent(10), Run(" ", 1)), Repeat(Sent(n), k)) :
             n \in {700, 7000}, k \in 1..MaxSentences }
    \cup { <<>>, Run(" ", 40), Run("a", 15), Run(".", 3000), Run("a", 21000),
           Sent(20) \o Run(" ", 2000) \o Sent(20) }

TargetChunks == {1, 3, 15, 30}

ChunkInit ==
    /\ MainInit
    /\ p_in = NoPure
    /\ p_out = NoPure
    /\ c_in \in [used : {TRUE}, text : ChunkTexts, target_chunks : TargetChunks]
    /\ c_out = NoPure
    /\ PoolIdle

Chunk ==
    /\ c_in.used
    /\ ~c_out.used
    /\ LET r == intelligent_chunk_text(c_in.text, c_in.target_chunks)
       IN  c_out' = [used |-> TRUE, raised |-> r.raised, chunks |-> r.chunks]
    /\ UNCHANGED <<mainVars, p_in, p_out, c_in, poolVars>>

SpecChunk == ChunkInit /\ [][Chunk]_vars

\* ---------------------------------------------- the worker pool, on its own
\* Several requests in flight.  The handler runs on the event loop up to its
\* await (lines 379-429) without giving way, submits run_summarization to the
\* executor of line 24 and continues when the future is done.  The executor is
\* concurrent.futures.ThreadPoolExecutor: submit() appends the work item to a
\* FIFO queue and starts a thread if no worker is idle and fewer than
\* max_workers exist; a worker takes the next item, runs it, releases the idle
\* semaphore and takes the next.  A run of run_summarization is kept as the
\* number of model calls it still makes.

\* line 24: ThreadPoolExecutor(max_workers=4)
max_workers == 4

\* a pool that starts a thread for every item
CanSpawnAlways(n) == TRUE

\* ThreadPoolExecutor._adjust_thread_count: num_threads < self._max_workers
CanSpawn(n) == n < max_workers

\* the work item a worker gets: the oldest of the queue
TakeNext(queue) == Head(queue)

\* the requests whose run_summarization a worker thread is executing
Busy == {r \in RequestIds : req_state[r] \in {"running", "invoking"}}

\* lines 379-429 with loop.run_in_executor(executor, run_summarization, ...):
\* the next request reaches the handler, which rejects it (line 383) or
\* submits its work item
Arrive ==
    /\ phase = "serving"
    /\ arrived < MaxRequests
    /\ arrived' = arrived + 1
    /\ \/ /\ req_state' = [req_state EXCEPT ![arrived + 1] = "rejected"]
          /\ UNCHANGED <<left, work_queue, threads, idle_semaphore>>
       \/ /\ req_state' = [req_state EXCEPT ![arrived + 1] = "waiting"]
          /\ \E n \in 0..MaxCalls : left' = [left EXCEPT ![arrived + 1] = n]
          /\ work_queue' = Append(work_queue, arrived + 1)
          /\ IF idle_semaphore > 0
             THEN idle_semaphore' = idle_semaphore - 1 /\ threads' = threads
             ELSE /\ idle_semaphore' = idle_semaphore
                  /\ threads' = IF CanSpawn(threads) THEN threads + 1 ELSE threads
    /\ UNCHANGED <<mainVars, calcVars, started>>

\* a worker thread that runs no item takes the next one and enters
\* run_summarization (line 254)
TakeWork ==
    /\ work_queue # <<>>
    /\ Cardinality(Busy) < threads
    /\ req_state' = [req_state EXCEPT ![TakeNext(work_queue)] = "running"]
    /\ started' = Append(started, TakeNext(work_queue))
    /\ work_queue' = SelectSeq(work_queue, LAMBDA r : r # TakeNext(work_queue))
    /\ UNCHANGED <<mainVars, calcVars, arrived, left, threads, idle_semaphore>>

\* lines 292, 326, 347, 364: the worker enters summarizer(...)
BeginCall ==
    /\ \E r \in RequestIds :
         /\ req_state[r] = "running"
         /\ left[r] > 0
         /\ req_state' = [req_state EXCEPT ![r] = "invoking"]
    /\ UNCHANGED <<mainVars, calcVars, arrived, left, work_queue, threads,
                   idle_semaphore, started>>

\* the call returns or raises
EndCall ==
    /\ \E r \in RequestIds :
         /\ req_state[r] = "invoking"
         /\ req_state' = [req_state EXCEPT ![r] = "running"]
         /\ left' = [left EXCEPT ![r] = left[r] - 1]
    /\ UNCHANGED <<mainVars, calcVars, arrived, work_queue, threads, idle_semaphore,
                   started>>

\* run_summarization returns (lines 343, 355, 372, 376); the worker releases
\* the idle semaphore
Return ==
    /\ \E r \in RequestIds :
         /\ req_state[r] = "running"
         /\ left[r] = 0
         /\ req_state' = [req_state EXCEPT ![r] = "returned"]
    /\ idle_semaphore' = idle_semaphore + 1
    /\ UNCHANGED <<mainVars, calcVars, arrived, left, work_queue, threads, started>>

\* lines 431-482: the event loop resumes the handler, which responds
Resume ==
    /\ \E r \in RequestIds :
         /\ req_state[r] = "returned"
         /\ req_state' = [req_state EXCEPT ![r] = "responded"]
    /\ UNCHANGED <<mainVars, calcVars, arrived, left, work_queue, threads,
                   idle_semaphore, started>>

\* the app is serving: both models were loaded at startup (lines 60-99)
PoolInit ==
    /\ phase = "serving"
    /\ summarizers = {"bart", "t5", "long_text"}
    /\ pc = "idle"
    /\ request = NoRequest
    /\ job = NoJob
    /\ chunks = <<>>
    /\ i = 0
    /\ chunk_summaries = <<>>
    /\ combined_summary = <<>>
    /\ summary = NoSummary
    /\ response = NoResponse
    /\ calls = <<>>
    /\ PureIdle

PoolNext ==
    \/ Arrive
    \/ TakeWork
    \/ BeginCall
    \/ EndCall
    \/ Return
    \/ Resume

SpecPool == PoolInit /\ [][PoolNext]_vars

\* ------------------------------------------------------------ the claims

\* the invocations of the model of one kind, in order
CallsOf(kind) == SelectSeq(calls, LAMBDA c : c.kind = kind)

\* the chunk summaries that survive the map phase, from the history: the
\* stripped, non-empty outputs of the map calls that returned, in call order
Survivors ==
    LET kept == SelectSeq(CallsOf("map"), LAMBDA c : ~c.raised /\ Strip(c.out) # <<>>)
    IN  [k \in 1..Len(kept) |-> Strip(kept[k].out)]

\* the indexes among 1..n of the chunks above 100 characters, in order
SubstantialUpTo(n) ==
    SelectSeq([j \in 1..n |-> j], LAMBDA j : StrLen(chunks[j]) > 100)

\* the map loop is over and its outcome has been looked at
AfterMap == i > Len(chunks) /\ pc \in {"reduce", "fallback", "returned", "done"}

\* C1: with at least one model registered and a cleaned text of at least 50
\* characters, a request whose model calls all returned ends in a successful
\* response with a non-empty summary.
C1_SummaryForEveryModelSet ==
    ( /\ pc = "done"
      /\ summarizers # {}
      /\ StrLen(clean_text(request.text)) >= 50
      /\ \A k \in 1..Len(calls) : ~calls[k].raised )
    => response.status = 200 /\ response.summary # <<>>

\* C2: every invocation of the model (map, reduce, fallback, direct) is made
\* with min_length < max_length.
C2_MinBelowMaxInEveryCall ==
    \A k \in 1..Len(calls) : calls[k].min_length < calls[k].max_length

\* a fallback call and a direct call were made for requests with both hints
C2_Witness ==
    /\ Truthy(request.max_length)
    /\ Truthy(request.min_length)
    /\ HintMinTokens(request.min_length[1]) >= HintMaxTokens(request.max_length[1])
    /\ \E k \in 1..Len(calls) : calls[k].kind \in {"fallback", "direct"}

\* C3: no silent empty success: a request for which run_summarization
\* returned nothing ends in a failure, and a successful response has
\* summary_length > 0, whatever the format.
C3_NoEmptySuccess ==
    pc = "done" =>
        /\ NotSummary(summary) /\ response.status # 400 => response.status = 500
        /\ response.status = 200 => response.summary_length > 0 /\ response.summary # <<>>

\* C4: on the hierarchical path a failed chunk call does not end the map
\* phase: the calls made are those of the chunks above 100 characters, each on
\* its chunk, in chunk order; and when a chunk summary survives, the combined
\* summary is the surviving summaries, in order, joined by single spaces.
C4_PartialSuccess ==
    /\ pc \in {"map", "reduce", "fallback", "returned", "done"} /\ i >= 1 =>
         /\ [k \in 1..Len(CallsOf("map")) |-> CallsOf("map")[k].index]
                = SubstantialUpTo(i - 1)
         /\ \A k \in 1..Len(CallsOf("map")) :
                CallsOf("map")[k].text = chunks[CallsOf("map")[k].index]
    /\ AfterMap /\ Survivors # <<>> =>
         /\ combined_summary = Join(Run(" ", 1), Survivors)
         /\ chunk_summaries = Survivors

\* a chunk call failed, later chunks were summarized, two summaries survived
C4_Witness ==
    /\ AfterMap
    /\ Len(Survivors) >= 2
    /\ \E k \in 1..Len(CallsOf("map")) :
         /\ CallsOf("map")[k].raised
         /\ \E l \in (k + 1)..Len(CallsOf("map")) : ~CallsOf("map")[l].raised
    /\ \E j \in 1..Len(chunks) : StrLen(chunks[j]) <= 100

\* C5, as claimed: when every chunk call raised, one further call is made, on
\* the first 3000 characters, and its result is returned as a non-empty summary.
C5_FallbackNonEmpty ==
    ( /\ pc \in {"returned", "done"}
      /\ CallsOf("map") # <<>>
      /\ \A k \in 1..Len(CallsOf("map")) : CallsOf("map")[k].raised )
    => /\ Len(CallsOf("fallback")) = 1
       /\ CallsOf("fallback")[1].text = Take(job.text, 3000)
       /\ ~summary.is_none
       /\ summary.text # <<>>

\* C5, amended: when no chunk summary survived, exactly one further call is
\* made, the last one, on the first 3000 characters; what is returned is that
\* call's stripped output, or nothing if the call raised.  A fallback call is
\* made only when no chunk summary survived.
C5_FallbackOnce ==
    /\ Len(CallsOf("fallback")) <= 1
    /\ CallsOf("fallback") # <<>> => Survivors = <<>> /\ AfterMap
    /\ pc \in {"returned", "done"} /\ i >= 1 /\ Survivors = <<>> =>
         /\ Len(CallsOf("fallback")) = 1
         /\ calls[Len(calls)].kind = "fallback"
         /\ calls[Len(calls)].text = Take(job.text, 3000)
         /\ summary = IF calls[Len(calls)].raised THEN NoSummary
                      ELSE Returned(Strip(calls[Len(calls)].out))

\* every chunk call raised and the fallback call gave the summary
C5_Witness ==
    /\ pc = "done"
    /\ Len(CallsOf("map")) >= 2
    /\ \A k \in 1..Len(CallsOf("map")) : CallsOf("map")[k].raised
    /\ Len(CallsOf("fallback")) = 1
    /\ StrLen(job.text) > 3000
    /\ response.status = 200

\* C6: when the call of the reduce pass fails, the combined chunk summaries
\* are returned as they are and the request succeeds.
C6_ReduceFailureDegrades ==
    (\E k \in 1..Len(calls) : calls[k].kind = "reduce" /\ calls[k].raised) =>
        /\ pc \in {"returned", "done"}
        /\ summary = Returned(Join(Run(" ", 1), Survivors))
        /\ pc = "done" => response.status = 200 /\ response.summary_length > 0

C6_Witness ==
    /\ pc = "done"
    /\ \E k \in 1..Len(calls) : calls[k].kind = "reduce" /\ calls[k].raised
    /\ response.status = 200

\* C7: with detail_level "high" the reduce call is never made and the
\* combined summary is returned as it is; otherwise the reduce call is made at
\* most once, and only on a combined text above 8000 characters.
C7_HighNeverReduces ==
    /\ job.detail_level = "high" =>
         /\ CallsOf("reduce") = <<>>
         /\ pc # "reduce"
         /\ AfterMap /\ Survivors # <<>> =>
                summary = Returned(Join(Run(" ", 1), Survivors))
    /\ Len(CallsOf("reduce")) <= 1
    /\ \A k \in 1..Len(CallsOf("reduce")) :
         /\ StrLen(CallsOf("reduce")[k].text) > 8000
         /\ CallsOf("reduce")[k].text = Join(Run(" ", 1), Survivors)

\* detail "high", a failed chunk, more than 8000 characters combined, returned
C7_Witness ==
    /\ pc = "done"
    /\ job.detail_level = "high"
    /\ StrLen(combined_summary) > 8000
    /\ \E k \in 1..Len(calls) : calls[k].raised
    /\ response.status = 200

\* the characters of s that are not whitespace
NonWs(s) == Norm(SelectSeq(s, LAMBDA r : ~IsSpace(r.c)))

RECURSIVE IsSubseq(_, _)
\* the characters of s occur in t, in order
IsSubseq(s, t) ==
    IF s = <<>> THEN TRUE
    ELSE IF t = <<>> THEN FALSE
    ELSE IF s[1].c # t[1].c THEN IsSubseq(s, Tail(t))
    ELSE IF s[1].n <= t[1].n
         THEN IsSubseq(Tail(s), Run(t[1].c, t[1].n - s[1].n) \o Tail(t))
         ELSE IsSubseq(Run(s[1].c, s[1].n - t[1].n) \o Tail(s), Tail(t))

\* C8: the chunks, concatenated in order, cover the text: no character of the
\* text other than whitespace is dropped.
C8_ChunksCoverText ==
    c_out.used /\ ~c_out.raised =>
        IsSubseq(NonWs(c_in.text), NonWs(Flatten(c_out.chunks)))

\* C9: every chunk but the last has at most 1.5 x target_chunk_size characters.
C9_ChunkSizeBound ==
    c_out.used /\ ~c_out.raised =>
        \A k \in 1..(Len(c_out.chunks) - 1) :
            2 * StrLen(c_out.chunks[k])
                <= 3 * TargetChunkSize(StrLen(c_in.text), c_in.target_chunks)

\* C10: calculate_summary_params returns min_tokens < max_tokens for every
\* length and every detail level.
C10_ParamsMinBelowMax == p_out.used => p_out.min_tokens < p_out.max_tokens

\* length 0, detail "low": 33 tokens at most and 50 at least, repaired to 150
C10_Witness ==
    /\ p_out.used
    /\ p_in.text_length = 0
    /\ p_in.detail_level = "low"
    /\ p_out.min_tokens = 50
    /\ p_out.max_tokens = 150

\* the bounds calculate_summary_params gives for the request at hand
Computed ==
    calculate_summary_params(StrLen(clean_text(request.text)), request.detail_level,
                             request.format)

\* C11, as claimed: a hint that is present replaces the computed bound,
\* max_tokens by max_length / 3 and min_tokens by min_length / 6; when then
\* min_tokens >= max_tokens, max_tokens becomes min_tokens + 50; the bounds
\* handed to run_summarization are these, with min_tokens < max_tokens.
C11_HintsDivided ==
    pc = "queued" =>
        LET max_tokens == IF request.max_length # NoHint
                          THEN request.max_length[1] \div 3 ELSE Computed[2]
            min_tokens == IF request.min_length # NoHint
                          THEN request.min_length[1] \div 6 ELSE Computed[1]
        IN  /\ job.min_length = min_tokens
            /\ job.max_length = IF min_tokens >= max_tokens THEN min_tokens + 50
                                ELSE max_tokens
            /\ job.min_length < job.max_length

\* C11, amended: a hint that is present and not 0 replaces the computed
\* bound, max_tokens by min(max_length // 3, 1024) and min_tokens by
\* max(min_length // 6, 20); a hint of 0 leaves the computed bound; when then
\* min_tokens >= max_tokens, max_tokens becomes min_tokens + 50; the bounds
\* handed to run_summarization are these, with min_tokens < max_tokens; the
\* hints 90 and 600 give min_tokens 100 and max_tokens 150.
C11_HintsOverride ==
    pc = "queued" =>
        LET has_max == request.max_length # NoHint /\ request.max_length[1] # 0
            has_min == request.min_length # NoHint /\ request.min_length[1] # 0
            max_tokens == IF has_max
                          THEN (IF request.max_length[1] \div 3 <= 1024
                                THEN request.max_length[1] \div 3 ELSE 1024)
                          ELSE Computed[2]
            min_tokens == IF has_min
                          THEN (IF request.min_length[1] \div 6 >= 20
                                THEN request.min_length[1] \div 6 ELSE 20)
                          ELSE Computed[1]
        IN  /\ job.min_length = min_tokens
            /\ job.max_length = IF min_tokens >= max_tokens THEN min_tokens + 50
                                ELSE max_tokens
            /\ job.min_length < job.max_length
            /\ request.max_length = <<90>> /\ request.min_length = <<600>> =>
                   job.min_length = 100 /\ job.max_length = 150

\* the request with the hints 90 and 600 is handed over with 100 and 150
C11_Witness ==
    /\ pc = "queued"
    /\ request.max_length = <<90>>
    /\ request.min_length = <<600>>
    /\ job.min_length = 100
    /\ job.max_length = 150

\* the requests whose work item was submitted, in arrival order
Submitted ==
    SelectSeq([r \in 1..arrived |-> r], LAMBDA r : req_state[r] # "rejected")

\* C12: whatever the number of requests in flight, at most 4 model
\* invocations are in progress and at most 4 runs of run_summarization are
\* being executed, so that a request arriving then waits; the requests are
\* started in the order they arrived; and a model call is only ever made for a
\* request that a worker of the pool took from the queue, never by the handler.
C12_PoolBoundsInvocations ==
    /\ Cardinality({r \in RequestIds : req_state[r] = "invoking"}) <= 4
    /\ Cardinality(Busy) <= 4
    /\ Len(started) <= Len(Submitted)
    /\ started = SubSeq(Submitted, 1, Len(started))
    /\ work_queue = SubSeq(Submitted, Len(started) + 1, Len(Submitted))
    /\ \A r \in RequestIds :
         /\ req_state[r] = "waiting" <=> \E k \in 1..Len(work_queue) : work_queue[k] = r
         /\ req_state[r] = "invoking" => \E k \in 1..Len(started) : started[k] = r

\* four invocations in progress and a fifth request waiting in the queue
C12_Witness ==
    /\ Cardinality({r \in RequestIds : req_state[r] = "invoking"}) = 4
    /\ work_queue # <<>>
    /\ req_state[work_queue[1]] = "waiting"

\* C13: a request whose cleaned text has fewer than 50 characters is rejected
\* by the length check: it ends with status 400, nothing is handed to
\* run_summarization and no model call is made for it; run_summarization only
\* receives cleaned texts of at least 50 characters.
C13_DegenerateRejected ==
    /\ pc # "idle" /\ StrLen(clean_text(request.text)) < 50 =>
         /\ pc = "done"
         /\ response.status = 400
         /\ job = NoJob
         /\ calls = <<>>
    /\ pc \in {"queued", "map", "reduce", "fallback", "direct", "returned"} =>
         StrLen(job.text) >= 50

====
